---- MODULE Spec2Model ----
(***************************************************************************)
(* Model of scripts/generate-llms-txt.js: the llms.txt generator.          *)
(*                                                                         *)
(* A JavaScript string, and the content of a file, is modelled as a        *)
(* sequence of runs <<atom, n>>: the atom (a piece of text, or one         *)
(* character or byte sequence named by its code) repeated n times.         *)
(* Concatenation of strings is \o.  Equal sequences denote equal strings.  *)
(***************************************************************************)
EXTENDS Bags, Integers, Sequences, FiniteSets, TLC

\* ------------------------------------------------------------------ bounds

\* Number of manifest entries whose file the environment may make unreadable
\* or give another content; every other source file keeps its default text.
MaxVolatile == 3

\* Number of times the script is invoked in one behaviour of SpecRerun.
MaxRuns == 2

\* Number of changes the environment makes to the source tree between runs.
MaxEdits == 1

\* ------------------------------------------------------------------ state

VARIABLES
  disk,      \* path -> file state
  pc,        \* where the process is: idle, loop, reading, writing, log, rejected, exited
  runs,      \* invocations so far
  edits,     \* changes of the environment to the source tree so far
  i,         \* index in STRUCTURE of the entry the loop is at
  sections,  \* the array of sections
  output,    \* the string handed to writeFile
  console,   \* lines printed by this run: [stream, msg]
  pending,   \* file-system calls awaited and not settled
  fsCalls,   \* file-system calls issued by this run, in order
  error,     \* the error generate()'s promise was rejected with
  exitCode,  \* exit code of the process, -1 while it has not exited
  history    \* per successful write: the sources and the bytes written

vars == <<disk, pc, runs, edits, i, sections, output, console, pending,
          fsCalls, error, exitCode, history>>

\* ---------------------------------------------------------------- strings

Str(s) == << <<s, 1>> >>

\* String.prototype.repeat
Repeat(s, n) == << <<s, n>> >>

NL == Str("\n")

\* Array.prototype.join
RECURSIVE Join(_, _)
Join(parts, sep) ==
  IF parts = <<>> THEN <<>>
  ELSE IF Len(parts) = 1 THEN parts[1]
  ELSE LET mid == Len(parts) \div 2
       IN  Join(SubSeq(parts, 1, mid), sep) \o sep
           \o Join(SubSeq(parts, mid + 1, Len(parts)), sep)

\* Decoding of file bytes as UTF-8 (readFile(path, "utf-8")): a well-formed
\* sequence gives its character, an ill-formed one gives U+FFFD; no error.
Utf8DecodeAtom(a) ==
  IF a = "0xE28094" THEN "U+2014"
  ELSE IF a = "0xEFBFBD" THEN "U+FFFD"
  ELSE IF a = "0xE9" THEN "U+FFFD"
  ELSE a

Utf8Decode(bytes) ==
  [k \in 1..Len(bytes) |-> <<Utf8DecodeAtom(bytes[k][1]), bytes[k][2]>>]

\* Encoding of a string as UTF-8 (writeFile(path, data, "utf-8")).
Utf8EncodeAtom(a) ==
  IF a = "U+2014" THEN "0xE28094"
  ELSE IF a = "U+FFFD" THEN "0xEFBFBD"
  ELSE a

Utf8Encode(str) ==
  [k \in 1..Len(str) |-> <<Utf8EncodeAtom(str[k][1]), str[k][2]>>]

\* ---------------------------------------------------------- published site

\* themeConfig.sidebar: the links of the pages of the site, in order.
Sidebar ==
  << "/stack-overview",
     "/version-requirements",
     "/new-project-checklist",
     "/production-checklist",
     "/project-structure",
     "/dependencies",
     "/scripts",
     "/integrations/typescript",
     "/integrations/tailwind",
     "/integrations/clerk-auth",
     "/integrations/drizzle-neon",
     "/integrations/trpc",
     "/integrations/env-validation",
     "/integrations/zustand",
     "/integrations/forms",
     "/integrations/resend-email",
     "/integrations/openrouter",
     "/integrations/fal-ai",
     "/integrations/voyage-embeddings",
     "/integrations/uploadthing",
     "/integrations/biome-ultracite",
     "/integrations/testing",
     "/rules/",
     "/ruler",
     "/rules/code-style",
     "/rules/typescript",
     "/rules/react",
     "/rules/nextjs",
     "/rules/tailwind",
     "/rules/git",
     "/rules/testing",
     "/rules/env",
     "/rules/turborepo",
     "/rules/integrations",
     "/rules/interface/typography",
     "/rules/interface/animation",
     "/rules/interface/forms",
     "/rules/interface/interactions",
     "/rules/interface/layout",
     "/rules/interface/design",
     "/rules/interface/performance",
     "/rules/interface/content-accessibility" >>

\* The markdown file a link of the site is built from: /a/b is a/b.md and
\* /a/ is a/index.md.
PageFile(link) ==
  IF SubSeq(link, Len(link), Len(link)) = "/"
  THEN SubSeq(link, 2, Len(link)) \o "index.md"
  ELSE SubSeq(link, 2, Len(link)) \o ".md"

\* --------------------------------------------------------------- manifest

STRUCTURE ==
  << "stack-overview.md",
     "version-requirements.md",
     "new-project-checklist.md",
     "production-checklist.md",
     "project-structure.md",
     "dependencies.md",
     "scripts.md",
     "ruler.md",
     "integrations/clerk-auth.md",
     "integrations/drizzle-neon.md",
     "integrations/trpc.md",
     "integrations/env-validation.md",
     "integrations/zustand.md",
     "integrations/forms.md",
     "integrations/resend-email.md",
     "integrations/openrouter.md",
     "integrations/fal-ai.md",
     "integrations/voyage-embeddings.md",
     "integrations/uploadthing.md",
     "integrations/biome-ultracite.md",
     "rules/code-style.md",
     "rules/typescript.md",
     "rules/react.md",
     "rules/nextjs.md",
     "rules/tailwind.md",
     "rules/git.md",
     "rules/testing.md",
     "rules/env.md",
     "rules/turborepo.md",
     "rules/integrations.md",
     "rules/interface/typography.md",
     "rules/interface/animation.md",
     "rules/interface/forms.md",
     "rules/interface/interactions.md",
     "rules/interface/layout.md",
     "rules/interface/design.md",
     "rules/interface/performance.md",
     "rules/interface/content-accessibility.md" >>

N == Len(STRUCTURE)

\* process.cwd()
ROOT == "<cwd>"

\* path.join(ROOT, ...): a path is the root and the normalised relative path.
PathJoin(root, rel) == <<root, rel>>

\* An output path that is the first file of the manifest.
OutputIsFirstEntry == PathJoin(ROOT, STRUCTURE[1])

\* An output path that is the last file of the manifest.
OutputInTree == PathJoin(ROOT, STRUCTURE[N])

OUTPUT == PathJoin(ROOT, "public/llms.txt")

PathStr(p) == Str(p[1]) \o Str("/") \o Str(p[2])

SourcePaths == {PathJoin(ROOT, STRUCTURE[k]) : k \in 1..N}

DiskPaths == SourcePaths \cup {OUTPUT}

\* ------------------------------------------------- generate(): pure parts

\* Width of the rule of "=" characters around a section heading.
RuleWidth == 80

\* The fixed text of the header, up to the table of contents.
HeaderText ==
  Str("# Build ") \o Str("U+2014") \o Str(" Stack Reference") \o NL
  \o Str("> How Daniel Howells builds software. Personal development reference distilled from 15 active projects.") \o NL
  \o Str("> Source: https://github.com/howells/docs") \o NL
  \o Str("> Website: https://build.danielhowells.com") \o Repeat("\n", 2)
  \o Str("## Table of Contents") \o Repeat("\n", 2)

\* `- ${f}`
TocLine(f) == Str("- ") \o Str(f)

\* A table of contents of the entries whose file can be read only.
TocOfReadable(manifest) ==
  Join([k \in 1..Len(SelectSeq(manifest, LAMBDA f : disk[PathJoin(ROOT, f)].err = "none")) |->
          Str("- ") \o Str(SelectSeq(manifest, LAMBDA f : disk[PathJoin(ROOT, f)].err = "none")[k])],
       Str("\n"))

\* STRUCTURE.map((f) => `- ${f}`).join("\n")
Toc(manifest) ==
  Join([k \in 1..Len(manifest) |-> TocLine(manifest[k])], NL)

\* The text between the table of contents and the body.
HeaderEnd == Repeat("\n", 2) \o Str("---") \o Repeat("\n", 2)

Header == HeaderText \o Toc(STRUCTURE) \o HeaderEnd

\* A section with no blank line between the second rule and the content.
SectionNoBlankLine(file, content) ==
  Repeat("\n", 2) \o Repeat("=", RuleWidth) \o NL
  \o Str("## ") \o Str(file) \o NL
  \o Repeat("=", RuleWidth) \o NL
  \o content

\* A section whose content has lost its last line end, as content.trimEnd()
\* would give.
SectionTrimmed(file, content) ==
  Repeat("\n", 2) \o Repeat("=", RuleWidth) \o NL
  \o Str("## ") \o Str(file) \o NL
  \o Repeat("=", RuleWidth) \o Repeat("\n", 2)
  \o SubSeq(content, 1, Len(content) - 1)

\* `\n\n${"=".repeat(80)}\n## ${file}\n${"=".repeat(80)}\n\n${content}`
Section(file, content) ==
  Repeat("\n", 2) \o Repeat("=", RuleWidth) \o NL
  \o Str("## ") \o Str(file) \o NL
  \o Repeat("=", RuleWidth) \o Repeat("\n", 2)
  \o content

\* sections.unshift(...)
Unshift(secs, s) == <<s>> \o secs

\* sections.push(...)
Push(secs, s) == Append(secs, s)

\* header + sections.join("")
Output(header, secs) == header \o Join(secs, <<>>)

\* A warning that does not name the file.
WarningMsgGeneric(file) == Str("Warning: file not found, skipping")

\* `Warning: ${file} not found, skipping`
WarningMsg(file) == Str("Warning: ") \o Str(file) \o Str(" not found, skipping")

\* A catch clause that handles a missing file and rethrows anything else.
CatchesOnlyMissing(code) == code = "ENOENT"

\* The catch clause around readFile has no binding and no test: it catches
\* every error.
Catches(code) == TRUE

\* A catch clause that tries the same entry again.
AfterCatchRetry(k) == k

\* A catch clause that also skips the entry after the one it warned of.
AfterCatchSkipNext(k) == k + 2

\* A catch clause that leaves the loop (break).
AfterCatchBreak(k) == N + 1

\* The loop goes on to the next entry after a caught error.
AfterCatch(k) == k + 1

\* Number of UTF-16 code units of an atom (String.prototype.length).
AtomLength(a) == IF a \in {"U+2014", "U+FFFD"} THEN 1 ELSE Len(a)

\* String.prototype.length: the code units of the runs, summed.
Length(str) ==
  LET units == [k \in {n \in 1..Len(str) :
                         AtomLength(str[n][1]) * str[n][2] > 0}
                  |-> AtomLength(str[k][1]) * str[k][2]]
  IN  BagCardinality(units)

\* (x / 1024).toFixed(1): one decimal, ties rounded up.
ToFixed1Of1024th(x) ==
  LET tenths == (x * 20 + 1024) \div 2048
  IN  Str(ToString(tenths \div 10)) \o Str(".") \o Str(ToString(tenths % 10))

\* `Generated ${OUTPUT} (${(output.length / 1024).toFixed(1)} KB)`
GeneratedMsg(out) ==
  Str("Generated ") \o PathStr(OUTPUT) \o Str(" (")
  \o ToFixed1Of1024th(Length(out)) \o Str(" KB)")

\* ------------------------------------------------------------ file system

File(bytes) == [err |-> "none", bytes |-> bytes]

Failing(code) == [err |-> code, bytes |-> <<>>]

\* Errors a read of a source file can raise: no such file, permission
\* denied, I/O error.
ReadErrors == {"ENOENT", "EACCES", "EIO"}

\* Errors the write of the output file can raise: no public/ directory,
\* permission denied, disk full.
WriteErrors == {"ENOENT", "EACCES", "ENOSPC"}

\* The default text of a source file: well-formed UTF-8 with a non-ASCII
\* character.
TextOf(f) ==
  Str("# ") \o Str(f) \o NL \o Str("Hello ") \o Str("0xE28094") \o Str(" World") \o NL

\* A text that is not well-formed UTF-8 (a Latin-1 e-acute).
Latin1Text == Str("caf") \o Str("0xE9") \o NL

VolatileIdx == (1..(MaxVolatile - 1)) \cup {N}

Volatile == {STRUCTURE[k] : k \in VolatileIdx}

\* What the environment can make of a source file: its default text, a
\* text in another encoding, or a file whose read raises an error.
FileKinds == {"text", "latin1"} \cup ReadErrors

FileOfKind(f, kind) ==
  IF kind = "text" THEN File(TextOf(f))
  ELSE IF kind = "latin1" THEN File(Latin1Text)
  ELSE Failing(kind)

FileStates(f) == {FileOfKind(f, kind) : kind \in FileKinds}

\* What public/llms.txt may hold before the first run.
StaleOutputs == {Failing("ENOENT"), File(Str("stale") \o NL)}

\* writeFile with flag "r+": the file is not truncated, so what it held
\* beyond the length of the data stays.
WriteFileNoTruncate(old, data) ==
  IF Len(old.bytes) > Len(Utf8Encode(data))
  THEN Utf8Encode(data) \o SubSeq(old.bytes, Len(Utf8Encode(data)) + 1, Len(old.bytes))
  ELSE Utf8Encode(data)

\* appendFile, or writeFile with flag "a": the data follows what the file held.
WriteFileAppend(old, data) == old.bytes \o Utf8Encode(data)

\* writeFile(path, data, "utf-8") with the default flag "w": the file holds
\* the encoded data and nothing of what it held.
WriteFileData(old, data) == Utf8Encode(data)

\* The source files as they are on disk.
Sources(d) == [p \in SourcePaths |-> d[p]]

\* ---------------------------------------------------------- initial state

Init ==
  /\ \E v \in [Volatile -> FileKinds], o \in StaleOutputs :
       disk = [p \in DiskPaths |->
                 IF p = OUTPUT THEN o
                 ELSE IF p[2] \in Volatile THEN FileOfKind(p[2], v[p[2]])
                 ELSE File(TextOf(p[2]))]
  /\ pc = "idle"
  /\ runs = 0
  /\ edits = 0
  /\ i = 0
  /\ sections = <<>>
  /\ output = <<>>
  /\ console = <<>>
  /\ pending = {}
  /\ fsCalls = <<>>
  /\ error = "none"
  /\ exitCode = -1
  /\ history = <<>>

\* ---------------------------------------------------------------- actions

ReadCall(k) == [op |-> "readFile", path |-> PathJoin(ROOT, STRUCTURE[k])]

WriteCall == [op |-> "writeFile", path |-> OUTPUT]

\* A new process runs generate() up to the loop: the header is built and
\* sections is empty.
Start ==
  /\ runs' = runs + 1
  /\ pc' = "loop"
  /\ i' = 1
  /\ sections' = <<>>
  /\ output' = <<>>
  /\ console' = <<>>
  /\ pending' = {}
  /\ fsCalls' = <<>>
  /\ error' = "none"
  /\ exitCode' = -1
  /\ UNCHANGED <<disk, edits, history>>

\* node scripts/generate-llms-txt.js
Invoke ==
  /\ pc = "idle"
  /\ Start

\* The script is run again after the process of the earlier run has exited.
Reinvoke ==
  /\ pc = "exited"
  /\ runs < MaxRuns
  /\ Start

\* await Promise.all(STRUCTURE.map((file) => readFile(...))): the reads of
\* all the entries not yet read are started together.
ReadStartParallel ==
  /\ pc = "loop"
  /\ i <= N
  /\ pending' = pending \cup {ReadCall(k) : k \in i..N}
  /\ fsCalls' = fsCalls \o [k \in 1..(N - i + 1) |-> ReadCall(i + k - 1)]
  /\ pc' = "reading"
  /\ UNCHANGED <<disk, runs, edits, i, sections, output, console, error,
                 exitCode, history>>

\* for (const file of STRUCTURE) { ... await readFile(path, "utf-8")
ReadStart ==
  /\ pc = "loop"
  /\ i <= N
  /\ pending' = pending \cup {ReadCall(i)}
  /\ fsCalls' = Append(fsCalls, ReadCall(i))
  /\ pc' = "reading"
  /\ UNCHANGED <<disk, runs, edits, i, sections, output, console, error,
                 exitCode, history>>

\* The read succeeds and the output so far is written at once, inside the
\* loop: await writeFile(OUTPUT, header + sections.join("")) after the push.
ReadResolveWriting ==
  /\ pc = "reading"
  /\ disk[PathJoin(ROOT, STRUCTURE[i])].err = "none"
  /\ LET content == Utf8Decode(disk[PathJoin(ROOT, STRUCTURE[i])].bytes)
     IN  sections' = Push(sections, Section(STRUCTURE[i], content))
  /\ disk' = [disk EXCEPT
                ![OUTPUT] = File(Utf8Encode(Output(Header, sections')))]
  /\ pending' = pending \ {ReadCall(i)}
  /\ i' = i + 1
  /\ pc' = "loop"
  /\ UNCHANGED <<runs, edits, output, console, fsCalls, error, exitCode,
                 history>>

\* The read succeeds: the decoded content is pushed as a section.
ReadResolve ==
  /\ pc = "reading"
  /\ disk[PathJoin(ROOT, STRUCTURE[i])].err = "none"
  /\ LET content == Utf8Decode(disk[PathJoin(ROOT, STRUCTURE[i])].bytes)
     IN  sections' = Push(sections, Section(STRUCTURE[i], content))
  /\ pending' = pending \ {ReadCall(i)}
  /\ i' = i + 1
  /\ pc' = "loop"
  /\ UNCHANGED <<disk, runs, edits, output, console, fsCalls, error,
                 exitCode, history>>

\* The read fails: the catch clause warns and the loop goes on.  An error
\* the clause did not catch would reject generate()'s promise.
ReadReject ==
  /\ pc = "reading"
  /\ disk[PathJoin(ROOT, STRUCTURE[i])].err # "none"
  /\ pending' = pending \ {ReadCall(i)}
  /\ IF Catches(disk[PathJoin(ROOT, STRUCTURE[i])].err)
     THEN /\ console' = Append(console,
                          [stream |-> "warn", msg |-> WarningMsg(STRUCTURE[i])])
          /\ i' = AfterCatch(i)
          /\ pc' = "loop"
          /\ error' = error
     ELSE /\ error' = disk[PathJoin(ROOT, STRUCTURE[i])].err
          /\ pc' = "rejected"
          /\ UNCHANGED <<console, i>>
  /\ UNCHANGED <<disk, runs, edits, sections, output, fsCalls, exitCode,
                 history>>

\* const p = writeFile(OUTPUT, ...); console.log(`Generated ...`); await p:
\* the line is printed when the write has been started, not when it is done.
WriteStartLogFirst ==
  /\ pc = "loop"
  /\ i > N
  /\ output' = Output(Header, sections)
  /\ pending' = pending \cup {WriteCall}
  /\ fsCalls' = Append(fsCalls, WriteCall)
  /\ console' = Append(console, [stream |-> "log",
                                 msg |-> GeneratedMsg(output')])
  /\ pc' = "writing"
  /\ UNCHANGED <<disk, runs, edits, i, sections, error, exitCode, history>>

\* const output = header + sections.join(""); await writeFile(OUTPUT, ...)
WriteStart ==
  /\ pc = "loop"
  /\ i > N
  /\ output' = Output(Header, sections)
  /\ pending' = pending \cup {WriteCall}
  /\ fsCalls' = Append(fsCalls, WriteCall)
  /\ pc' = "writing"
  /\ UNCHANGED <<disk, runs, edits, i, sections, console, error, exitCode,
                 history>>

\* The write succeeds.
WriteResolve ==
  /\ pc = "writing"
  /\ disk' = [disk EXCEPT ![OUTPUT] = File(WriteFileData(disk[OUTPUT], output))]
  /\ history' = Append(history, [src |-> Sources(disk), out |-> disk'[OUTPUT]])
  /\ pending' = pending \ {WriteCall}
  /\ pc' = "log"
  /\ UNCHANGED <<runs, edits, i, sections, output, console, fsCalls, error,
                 exitCode>>

\* console.log(`Generated ...`); generate() returns and the process exits.
LogGenerated ==
  /\ pc = "log"
  /\ console' = Append(console, [stream |-> "log", msg |-> GeneratedMsg(output)])
  /\ pc' = "exited"
  /\ exitCode' = 0
  /\ UNCHANGED <<disk, runs, edits, i, sections, output, pending, fsCalls,
                 error, history>>

\* The write fails: generate()'s promise is rejected.  The file is opened
\* with flag "w": when the failure comes after the open (disk full), the
\* file is left truncated; otherwise it is as it was.
WriteReject ==
  /\ pc = "writing"
  /\ \E code \in WriteErrors :
       /\ error' = code
       /\ disk' = IF code = "ENOSPC"
                  THEN [disk EXCEPT ![OUTPUT] = File(<<>>)]
                  ELSE disk
  /\ pending' = pending \ {WriteCall}
  /\ pc' = "rejected"
  /\ UNCHANGED <<runs, edits, i, sections, output, console, fsCalls,
                 exitCode, history>>

\* generate().catch(() => {}): the rejection is handled and nothing is logged.
TopLevelCatchSilent ==
  /\ pc = "rejected"
  /\ pc' = "exited"
  /\ exitCode' = 0
  /\ UNCHANGED <<disk, runs, edits, i, sections, output, console, pending,
                 fsCalls, error, history>>

\* generate().catch(console.error): the rejection is handled, so the process
\* ends as any process whose work is done, with exit code 0.
TopLevelCatch ==
  /\ pc = "rejected"
  /\ console' = Append(console, [stream |-> "error", msg |-> Str(error)])
  /\ pc' = "exited"
  /\ exitCode' = 0
  /\ UNCHANGED <<disk, runs, edits, i, sections, output, pending, fsCalls,
                 error, history>>

\* Between two runs the environment changes the source tree: a file is
\* deleted, or a file is created, or created anew, with its default text.
Edit ==
  /\ pc = "exited"
  /\ runs < MaxRuns
  /\ edits < MaxEdits
  /\ \E f \in Volatile : \E st \in {File(TextOf(f)), Failing("ENOENT")} :
       /\ st # disk[PathJoin(ROOT, f)]
       /\ disk' = [disk EXCEPT ![PathJoin(ROOT, f)] = st]
  /\ edits' = edits + 1
  /\ UNCHANGED <<pc, runs, i, sections, output, console, pending, fsCalls,
                 error, exitCode, history>>

\* One run of the script.
Next ==
  \/ Invoke
  \/ ReadStart
  \/ ReadResolve
  \/ ReadReject
  \/ WriteStart
  \/ WriteResolve
  \/ LogGenerated
  \/ WriteReject
  \/ TopLevelCatch

Spec == Init /\ [][Next]_vars

\* One run in which every call to the file system that is awaited is
\* eventually settled and every continuation that is ready is eventually
\* run by the event loop.
FairSpec == Spec /\ WF_vars(Next)

\* Runs of the script one after the other, the environment changing the
\* source tree in between.
NextRerun ==
  \/ Invoke
  \/ ReadStart
  \/ ReadResolve
  \/ ReadReject
  \/ WriteStart
  \/ WriteResolve
  \/ LogGenerated
  \/ WriteReject
  \/ TopLevelCatch
  \/ Reinvoke
  \/ Edit

SpecRerun == Init /\ [][NextRerun]_vars

\* ------------------------------------------------- reading the output file

\* The write of this run has succeeded.
Wrote == pc \in {"log", "exited"} /\ error = "none"

\* The loop of this run has been left.
LoopDone == pc \in {"writing", "log", "rejected", "exited"}

\* The bytes of public/llms.txt.
Written == disk[OUTPUT].bytes

SourceOf(k) == disk[PathJoin(ROOT, STRUCTURE[k])]

IsReadable(k) == SourceOf(k).err = "none"

\* The manifest restricted to the entries whose file can be read.
ReadableEntries ==
  SelectSeq(STRUCTURE, LAMBDA f : disk[PathJoin(ROOT, f)].err = "none")

\* The elements of a set of numbers in increasing order.
Ascending(S) ==
  LET rank == [p \in S |-> Cardinality({q \in S : q < p})]
  IN  [k \in 1..Cardinality(S) |-> CHOOSE p \in S : rank[p] = k - 1]

\* A section begins at position p of b: two line ends, a rule, the heading
\* line, a rule, two line ends.
IsSectionStart(b, p) ==
  /\ p + 7 <= Len(b)
  /\ b[p] = <<"\n", 2>>
  /\ b[p + 1] = <<"=", RuleWidth>>
  /\ b[p + 2] = <<"\n", 1>>
  /\ b[p + 3] = <<"## ", 1>>
  /\ b[p + 5] = <<"\n", 1>>
  /\ b[p + 6] = <<"=", RuleWidth>>
  /\ b[p + 7] = <<"\n", 2>>

SectionStarts(b) == {p \in 1..Len(b) : IsSectionStart(b, p)}

\* The sections of b in order, each with the file its heading names and its
\* content: what follows its second rule and blank line, up to the next
\* section or the end of b.
Parsed(b) ==
  LET at == Ascending(SectionStarts(b))
  IN  [k \in 1..Len(at) |->
         [file |-> b[at[k] + 4][1],
          content |-> SubSeq(b, at[k] + 8,
                             IF k < Len(at) THEN at[k + 1] - 1 ELSE Len(b))]]

\* The headings of a sequence of parsed sections.
Headings(ps) == [k \in 1..Len(ps) |-> ps[k].file]

\* The sections among ps that are headed f.
SectionsOf(ps, f) == {j \in 1..Len(ps) : ps[j].file = f}

\* The bullets of the table of contents of b: the "- " items before the
\* first "---" line.
TocOf(b) ==
  LET rules == {p \in 1..Len(b) : b[p] = <<"---", 1>>}
      stop == IF rules = {} THEN Len(b) + 1
              ELSE CHOOSE p \in rules : \A r \in rules : p <= r
      at == Ascending({p \in 1..(stop - 2) : b[p] = <<"- ", 1>>})
  IN  [k \in 1..Len(at) |-> b[at[k] + 1][1]]

\* A file's bytes are well-formed UTF-8.
WellFormed(bytes) == \A k \in 1..Len(bytes) : bytes[k][1] # "0xE9"

\* The warnings of this run that name file f.
WarningsFor(f) ==
  {j \in 1..Len(console) :
     console[j] = [stream |-> "warn", msg |-> WarningMsg(f)]}

\* ----------------------------------------------------------------- claims

\* C1 as stated: after a successful run, every manifest entry whose file was
\* readable has exactly one section headed by its path in the output, and
\* the content of that section is the file's content, byte for byte.
C1_VerbatimContent ==
  Wrote =>
    LET ps == Parsed(Written) IN
    \A k \in 1..N :
      IsReadable(k) =>
        /\ Cardinality(SectionsOf(ps, STRUCTURE[k])) = 1
        /\ \A j \in SectionsOf(ps, STRUCTURE[k]) :
             ps[j].content = SourceOf(k).bytes

\* C1 as amended: after a successful run, every manifest entry whose file was
\* readable has exactly one section headed by its path in the output; the
\* content of that section is the file's content decoded as UTF-8 and encoded
\* again, which is the file's content byte for byte when the file is
\* well-formed UTF-8.
C1_DecodedContent ==
  Wrote =>
    LET ps == Parsed(Written) IN
    \A k \in 1..N :
      IsReadable(k) =>
        /\ Cardinality(SectionsOf(ps, STRUCTURE[k])) = 1
        /\ \A j \in SectionsOf(ps, STRUCTURE[k]) :
             /\ ps[j].content = Utf8Encode(Utf8Decode(SourceOf(k).bytes))
             /\ WellFormed(SourceOf(k).bytes) =>
                  ps[j].content = SourceOf(k).bytes

\* A successful run over a tree with an unreadable entry, a readable entry in
\* another encoding and a readable well-formed entry among the volatile ones.
C1_Witness ==
  /\ pc = "exited"
  /\ Wrote
  /\ ~IsReadable(1)
  /\ IsReadable(N) /\ ~WellFormed(SourceOf(N).bytes)
  /\ IsReadable(2) /\ WellFormed(SourceOf(2).bytes)

\* C2: the headings of the sections of the output, in order, are the
\* manifest restricted to the readable entries.
C2_OrderPreserved ==
  Wrote => Headings(Parsed(Written)) = ReadableEntries

\* A successful run in which two entries, the first and the last, were
\* unreadable and the ones between were read.
C2_Witness ==
  /\ Wrote
  /\ ~IsReadable(1) /\ IsReadable(2) /\ ~IsReadable(N)
  /\ Len(ReadableEntries) = N - 2

\* C3 as stated: the table of contents of every output written lists exactly
\* the files that were read and included in the body, in the same order.
C3_TocMatchesBody ==
  Wrote => TocOf(Written) = Headings(Parsed(Written))

\* C4: every output written begins with the fixed header text, followed by a
\* table of contents whose bullets are the full manifest in manifest order,
\* and the header ends there, whatever entries failed to read.
C4_HeaderStable ==
  Wrote =>
    /\ Len(Written) >= Len(Header)
    /\ SubSeq(Written, 1, Len(HeaderText)) = Utf8Encode(HeaderText)
    /\ SubSeq(Written, 1, Len(Header)) = Utf8Encode(Header)
    /\ TocOf(Written) = STRUCTURE

\* A successful run in which some entries failed to read.
C4_Witness ==
  /\ Wrote
  /\ ~IsReadable(2) /\ ~IsReadable(N) /\ IsReadable(1)

\* The file-system calls of a run that is not cut short: one read per
\* manifest entry, in manifest order, then the write.
AllCalls == [k \in 1..(N + 1) |-> IF k <= N THEN ReadCall(k) ELSE WriteCall]

\* The lines this run printed on the given stream.
Lines(stream) == {j \in 1..Len(console) : console[j].stream = stream}

\* The entries among the first k of the manifest whose file cannot be read.
UnreadableUpTo(k) == {j \in 1..k : ~IsReadable(j)}

\* C5: when a manifest entry cannot be read, the run is not cut short: every
\* entry is attempted, the write of the output file is issued after them, a
\* warning naming each unreadable entry is printed, and when the write
\* succeeds every readable entry's section holds what it holds when nothing
\* is missing (the file's content as decoded and encoded).
C5_GracefulDegradation ==
  (pc = "exited" /\ UnreadableUpTo(N) # {}) =>
    /\ fsCalls = AllCalls
    /\ \A k \in UnreadableUpTo(N) : WarningsFor(STRUCTURE[k]) # {}
    /\ Wrote =>
         LET ps == Parsed(Written) IN
         \A k \in 1..N :
           IsReadable(k) =>
             \E j \in 1..Len(ps) :
               ps[j] = [file |-> STRUCTURE[k],
                        content |-> Utf8Encode(Utf8Decode(SourceOf(k).bytes))]

\* A finished, successful run whose first entry was unreadable and whose
\* later entries were read.
C5_Witness ==
  /\ pc = "exited"
  /\ Wrote
  /\ ~IsReadable(1) /\ IsReadable(2) /\ IsReadable(N)

\* C6: once the loop is left, every entry whose read failed has no section
\* (in the array, and in the output once written) and exactly one warning
\* line naming it; an entry whose read succeeded has no warning; there is no
\* other warning line.
C6_SkippedWithOneWarning ==
  LoopDone =>
    /\ \A k \in 1..N :
         IF IsReadable(k)
         THEN WarningsFor(STRUCTURE[k]) = {}
         ELSE /\ Cardinality(WarningsFor(STRUCTURE[k])) = 1
              /\ \A j \in 1..Len(sections) : sections[j][5][1] # STRUCTURE[k]
              /\ Wrote => SectionsOf(Parsed(Written), STRUCTURE[k]) = {}
    /\ Cardinality(Lines("warn")) = Cardinality(UnreadableUpTo(N))

\* A successful run in which two entries failed to read and one volatile
\* entry was read.
C6_Witness ==
  /\ Wrote
  /\ ~IsReadable(1) /\ IsReadable(2) /\ ~IsReadable(N)
  /\ Cardinality(Lines("warn")) = 2

\* C8 as stated: when the write of the output file fails, the process ends
\* with a non-zero exit code.
C8_WriteFailureExitsNonZero ==
  (pc = "exited" /\ error \in WriteErrors) => exitCode # 0

\* C9: a failed write rejects generate(): nothing is logged for it before the
\* top-level handler runs; when the process has exited the error has been
\* logged exactly once, on the error stream, no "Generated" line was printed,
\* and the warnings are those of the unreadable entries only.
C9_WriteErrorToTopLevel ==
  /\ pc = "rejected" =>
       /\ error \in WriteErrors
       /\ Lines("error") = {} /\ Lines("log") = {}
  /\ (pc = "exited" /\ error # "none") =>
       /\ Cardinality(Lines("error")) = 1
       /\ \A j \in Lines("error") : console[j].msg = Str(error)
       /\ Lines("log") = {}
       /\ Cardinality(Lines("warn")) = Cardinality(UnreadableUpTo(N))

\* A run that has exited after its write failed for lack of space, one of its
\* entries having been unreadable.
C9_Witness ==
  /\ pc = "exited"
  /\ error = "ENOSPC"
  /\ ~IsReadable(1)
  /\ Cardinality(Lines("error")) = 1

\* C10: whatever error a read raises, it is caught in the loop: the entry
\* gets the "not found, skipping" warning and no section, and the loop goes
\* on; generate() is rejected, and the top-level handler logs, only after
\* the write was issued.
C10_ReadErrorsRecoverable ==
  /\ (error # "none" \/ pc = "rejected" \/ Lines("error") # {}) =>
       fsCalls = AllCalls
  /\ pc \in {"loop", "reading"} => Len(fsCalls) = IF pc = "loop" THEN i - 1 ELSE i
  /\ pc # "idle" =>
       \A k \in UnreadableUpTo(N) :
         k < i =>
           /\ [stream |-> "warn", msg |-> WarningMsg(STRUCTURE[k])]
                \in {console[j] : j \in 1..Len(console)}
           /\ \A j \in 1..Len(sections) : sections[j][5][1] # STRUCTURE[k]

\* A successful run in which three reads failed, each with another error.
C10_Witness ==
  /\ pc = "exited"
  /\ Wrote
  /\ {SourceOf(k).err : k \in VolatileIdx} = ReadErrors

\* C7: two runs that wrote the output from the same source files wrote the
\* same bytes, whatever the output file held before each of them.
C7_Idempotent ==
  \A a, b \in 1..Len(history) :
    history[a].src = history[b].src => history[a].out = history[b].out

\* Two successful runs over the same source files, the first of which found
\* a stale output file and the second the output of the first.
C7_Witness ==
  /\ Len(history) = 2
  /\ history[1].src = history[2].src
  /\ pc = "exited"
  /\ ~IsReadable(1)

\* C11: the output file holds exactly the header and the sections of the
\* run that wrote it last, whatever it held before; so right after a write
\* every entry readable in this run has a section in the file, also an entry
\* that was missing when an earlier run wrote the file.
C11_FullOverwrite ==
  Wrote =>
    /\ Written = Utf8Encode(Header \o Join(sections, <<>>))
    /\ pc = "log" =>
         LET ps == Parsed(Written) IN
         /\ Len(ps) = Len(sections)
         /\ \A k \in 1..N : IsReadable(k) => SectionsOf(ps, STRUCTURE[k]) # {}

\* A second successful run, made after the first run wrote the file without
\* the first entry, which was missing then and has appeared since.
C11_Witness ==
  /\ pc = "log"
  /\ Len(history) = 2
  /\ history[1].src[PathJoin(ROOT, STRUCTURE[1])].err = "ENOENT"
  /\ IsReadable(1)
  /\ Len(Parsed(history[1].out.bytes)) < Len(Parsed(Written))

\* C12 as stated: every page linked in the sidebar of the site is an entry of
\* the manifest, so that after a successful run its file has a section in
\* llms.txt unless it is a manifest entry that could not be read.
C12_SidebarInManifest ==
  Wrote =>
    \A n \in 1..Len(Sidebar) :
      \/ \E k \in 1..N : STRUCTURE[k] = PageFile(Sidebar[n]) /\ ~IsReadable(k)
      \/ SectionsOf(Parsed(Written), PageFile(Sidebar[n])) # {}

\* What comes before the content in the section of file f: after the two
\* line ends that set the section off, a rule of 80 "=", the line "## f", a
\* rule of 80 "=" and a blank line.
SectionHead(f) ==
  << <<"\n", 2>>, <<"=", 80>>, <<"\n", 1>>, <<"## ", 1>>, <<f, 1>>,
     <<"\n", 1>>, <<"=", 80>>, <<"\n", 2>> >>

\* Where section j of the array begins in the output string, less one.
OffsetOf(j) == Len(Header) + Len(Join(SubSeq(sections, 1, j - 1), <<>>))

\* The manifest entries named by the heading token of section j of the array.
EntriesOf(j) == {k \in 1..N : STRUCTURE[k] = sections[j][5][1]}

\* C13 as stated: each section of the output body is a rule of 80 "=", the
\* heading "## <entry>" with the manifest entry as listed, a rule of 80 "=",
\* a blank line and then the raw bytes of the file, nothing inserted or
\* removed.
C13_RawSectionFormat ==
  pc = "log" =>
    \A j \in 1..Len(sections) :
      /\ EntriesOf(j) # {}
      /\ \A k \in EntriesOf(j) :
           /\ IsReadable(k)
           /\ SubSeq(Written, OffsetOf(j) + 1, OffsetOf(j) + Len(sections[j]))
                = SectionHead(STRUCTURE[k]) \o SourceOf(k).bytes

\* C13 as amended (checked of the section last pushed, of the whole array
\* when the loop is left, and of the file once written): each section of the
\* output body is a rule of 80 "=", the
\* heading "## <entry>" with the manifest entry as listed, a rule of 80 "=",
\* a blank line and then the content of the file as decoded from UTF-8,
\* nothing else inserted or removed: the raw bytes of a well-formed file, and
\* U+FFFD for each ill-formed sequence of another.
C13_SectionFormat ==
  /\ \A j \in (IF pc = "writing" THEN 1..Len(sections)
               ELSE IF pc = "loop" /\ sections # <<>> THEN {Len(sections)}
               ELSE {}) :
       /\ EntriesOf(j) # {}
       /\ \A k \in EntriesOf(j) :
            /\ IsReadable(k)
            /\ sections[j] = SectionHead(STRUCTURE[k]) \o Utf8Decode(SourceOf(k).bytes)
  /\ pc = "log" =>
       \A j \in 1..Len(sections) :
         \A k \in EntriesOf(j) :
           /\ SubSeq(Written, OffsetOf(j) + 1, OffsetOf(j) + Len(sections[j]))
                = SectionHead(STRUCTURE[k]) \o Utf8Encode(Utf8Decode(SourceOf(k).bytes))
           /\ WellFormed(SourceOf(k).bytes) =>
                SubSeq(Written, OffsetOf(j) + 1, OffsetOf(j) + Len(sections[j]))
                  = SectionHead(STRUCTURE[k]) \o SourceOf(k).bytes

\* A written output whose last section is that of a file that is not
\* well-formed UTF-8, the first entry having been skipped.
C13_Witness ==
  /\ pc = "log"
  /\ ~IsReadable(1)
  /\ IsReadable(2) /\ WellFormed(SourceOf(2).bytes)
  /\ IsReadable(N) /\ ~WellFormed(SourceOf(N).bytes)
  /\ Len(sections) = N - 1

\* C14: the manifest entries are read one at a time in manifest order: the
\* calls made so far are the first calls of the sequence "read entry 1, ...,
\* read entry N, write", at most one call is in flight, while the read of
\* entry i is awaited it is the only call in flight and the last one made,
\* between two reads nothing is in flight and exactly the first i - 1 entries
\* have been attempted, and when the loop is left every entry has been
\* attempted exactly once.
C14_SequentialReads ==
  /\ Cardinality(pending) <= 1
  /\ Len(fsCalls) <= N + 1
  /\ \A n \in 1..Len(fsCalls) : fsCalls[n] = AllCalls[n]
  /\ pc = "reading" => pending = {ReadCall(i)} /\ Len(fsCalls) = i
  /\ pc = "loop" => pending = {} /\ Len(fsCalls) = i - 1
  /\ LoopDone =>
       \A k \in 1..N :
         Cardinality({n \in 1..Len(fsCalls) : fsCalls[n] = ReadCall(k)}) = 1

\* The read of the last entry is in flight, after reads that failed and
\* reads that succeeded.
C14_Witness ==
  /\ pc = "reading"
  /\ i = N
  /\ ~IsReadable(1)
  /\ IsReadable(2)
  /\ pending = {ReadCall(N)}
  /\ Len(fsCalls) = N

\* The positions of the writeFile calls among calls.
Writes(calls) == {n \in 1..Len(calls) : calls[n].op = "writeFile"}

\* C15: in a run at most one write is issued, it targets public/llms.txt and
\* it is issued after the read of every manifest entry has been attempted;
\* the file system changes only while that write is awaited, and then only
\* at public/llms.txt, so nothing is written while entries remain.
C15_SingleWriteAfterReads ==
  [][ /\ Cardinality(Writes(fsCalls')) <= 1
      /\ \A n \in Writes(fsCalls') :
           /\ fsCalls'[n].path = <<ROOT, "public/llms.txt">>
           /\ n = N + 1
           /\ \A k \in 1..N : fsCalls'[k] = ReadCall(k)
      /\ disk' # disk =>
           /\ pc = "writing"
           /\ i > N
           /\ pending = {WriteCall}
           /\ fsCalls = AllCalls
           /\ \A p \in DiskPaths \ {OUTPUT} : disk'[p] = disk[p] ]_vars

\* The write has been made, after the reads of all the entries, the last of
\* which failed.
C15_Witness ==
  /\ pc = "log"
  /\ fsCalls = AllCalls
  /\ Cardinality(Writes(fsCalls)) = 1
  /\ ~IsReadable(N)
  /\ Written = Utf8Encode(output)

\* C16: a run prints at most one line on the standard output; the line is
\* there only when the write of the output file has completed successfully
\* (all calls made, none in flight, public/llms.txt holding the output), it
\* is the last thing printed and reports the output path and a size; a run
\* that has ended without error has printed exactly one, a run whose write
\* is not done or has failed has printed none.
C16_SuccessLine ==
  /\ Cardinality(Lines("log")) <= 1
  /\ \A j \in Lines("log") :
       /\ pc = "exited"
       /\ error = "none"
       /\ fsCalls = AllCalls
       /\ pending = {}
       /\ disk[OUTPUT] = File(Utf8Encode(output))
       /\ j = Len(console)
       /\ Len(console[j].msg) = 9
       /\ SubSeq(console[j].msg, 1, 5)
            = Str("Generated ") \o Str("<cwd>") \o Str("/")
              \o Str("public/llms.txt") \o Str(" (")
       /\ console[j].msg[9] = <<" KB)", 1>>
  /\ pc = "exited" /\ error = "none" => Cardinality(Lines("log")) = 1
  /\ pc \in {"idle", "loop", "reading", "writing", "log", "rejected"} =>
       Lines("log") = {}
  /\ error # "none" => Lines("log") = {}

\* A run has ended with its line printed after two warnings.
C16_Witness ==
  /\ pc = "exited"
  /\ error = "none"
  /\ Cardinality(Lines("log")) = 1
  /\ Cardinality(Lines("warn")) = 2
  /\ Len(console) = 3
  /\ console[3].stream = "log"

\* The number of bytes an atom of a file stands for.
Utf8AtomLength(a) ==
  IF a \in {"0xE28094", "0xEFBFBD"} THEN 3
  ELSE IF a = "0xE9" THEN 1
  ELSE Len(a)

\* The size of a file in bytes.
ByteLength(bytes) ==
  LET sizes == [k \in {n \in 1..Len(bytes) :
                         Utf8AtomLength(bytes[n][1]) * bytes[n][2] > 0}
                  |-> Utf8AtomLength(bytes[k][1]) * bytes[k][2]]
  IN  BagCardinality(sizes)

\* C17: the size reported in the success line is the number of bytes of the
\* file public/llms.txt as written, divided by 1024, to one decimal place.
C17_SizeIsFileSize ==
  pc = "exited" /\ error = "none" =>
    console[Len(console)].msg
      = Str("Generated ") \o PathStr(OUTPUT) \o Str(" (")
        \o ToFixed1Of1024th(ByteLength(Written)) \o Str(" KB)")

\* The output file that the manifest and the source files src determine.
OutputFor(src) ==
  LET readable == SelectSeq(STRUCTURE,
                            LAMBDA f : src[PathJoin(ROOT, f)].err = "none")
  IN  Utf8Encode(
        Header
        \o Join([k \in 1..Len(readable) |->
                   SectionHead(readable[k])
                   \o Utf8Decode(src[PathJoin(ROOT, readable[k])].bytes)],
                <<>>))

\* C18: no step of a run creates, changes or deletes a manifest source
\* file or any file but public/llms.txt under the project root; every write
\* issued targets that path; and the file a successful write leaves is
\* determined by the manifest and the source files alone, whatever the file
\* held before.
C18_Frame ==
  [][ /\ \A p \in SourcePaths : disk'[p] = disk[p]
      /\ DOMAIN disk' = DOMAIN disk
      /\ \A p \in DOMAIN disk :
           disk'[p] # disk[p] => p = <<"<cwd>", "public/llms.txt">>
      /\ \A n \in Writes(fsCalls') :
           fsCalls'[n].path = <<"<cwd>", "public/llms.txt">>
      /\ pc' = "log" /\ pc # "log" =>
           disk'[<<"<cwd>", "public/llms.txt">>]
             = File(OutputFor(Sources(disk))) ]_vars

\* A run has ended having replaced a stale public/llms.txt, with source
\* files that could not be read and one that is not UTF-8.
C18_Witness ==
  /\ pc = "exited"
  /\ error = "none"
  /\ Len(history) = 1
  /\ ~IsReadable(1)
  /\ IsReadable(2)
  /\ ~WellFormed(SourceOf(2).bytes)
  /\ Written = OutputFor(history[1].src)
  /\ Sources(disk) = history[1].src

\* The number of manifest entries processed: those before the one the loop
\* is at, all of them once the loop is left.
Processed ==
  IF pc = "idle" THEN 0
  ELSE IF pc \in {"loop", "reading"} THEN i - 1
  ELSE N

\* The warnings printed, in order.
Warnings == SelectSeq(console, LAMBDA c : c.stream = "warn")

\* C19: when the first k manifest entries have been processed, for every k
\* from 0 to N, sections holds exactly the sections of the readable entries
\* among them, in manifest order, and exactly one warning has been printed
\* for each unreadable entry among them, in manifest order; so sections and
\* warnings number k together, and N when the loop is left.
C19_LoopInvariant ==
  LET k == Processed
      r == SelectSeq([j \in 1..k |-> j], IsReadable)
      u == SelectSeq([j \in 1..k |-> j], LAMBDA j : ~IsReadable(j))
  IN  /\ k \in 0..N
      /\ Len(sections) = Len(r)
      /\ Len(Warnings) = Len(u)
      /\ Len(sections) + Len(Warnings) = k
      /\ LoopDone => Len(sections) + Len(Warnings) = N
      /\ pc \in {"loop", "writing"} =>
           /\ \A n \in 1..Len(r) :
                sections[n] = SectionHead(STRUCTURE[r[n]])
                              \o Utf8Decode(SourceOf(r[n]).bytes)
           /\ \A n \in 1..Len(u) :
                Warnings[n].msg = WarningMsg(STRUCTURE[u[n]])

\* Two entries have been processed, the first unreadable and the second
\* readable: one warning, one section.
C19_Witness ==
  /\ pc = "loop"
  /\ i = 3
  /\ ~IsReadable(1)
  /\ IsReadable(2)
  /\ Len(sections) = 1
  /\ Len(Warnings) = 1

\* The run has ended after one read of each entry and one write, nothing in
\* flight, the last line printed being the success line or the write error.
Finished ==
  /\ pc = "exited"
  /\ pending = {}
  /\ fsCalls = AllCalls
  /\ console # <<>>
  /\ \/ /\ error = "none"
        /\ console[Len(console)]
             = [stream |-> "log", msg |-> GeneratedMsg(output)]
     \/ /\ error \in WriteErrors
        /\ console[Len(console)] = [stream |-> "error", msg |-> Str(error)]

\* C20: whatever reads succeed or fail, a run that has started eventually
\* finishes, having attempted each manifest entry once and the write once,
\* with the success line printed or the write error logged; and no step
\* goes back: the loop index never decreases, a read that settles moves the
\* loop to the next entry, each call made is the next of "read 1, ..., read
\* N, write", and a run that has ended stays ended.
C20_Termination ==
  /\ (pc = "loop" /\ i = 1) ~> Finished
  /\ [][ /\ i' >= i
         /\ pc = "reading" /\ pc' = "loop" => i' = i + 1
         /\ fsCalls' # fsCalls =>
              /\ Len(fsCalls) <= N
              /\ fsCalls' = Append(fsCalls, AllCalls[Len(fsCalls) + 1])
         /\ pc = "exited" => pc' = "exited" ]_vars

\* A run has finished with the write error logged, after reads that failed.
C20_Witness ==
  /\ Finished
  /\ error = "ENOSPC"
  /\ ~IsReadable(1)
  /\ ~IsReadable(N)
  /\ Len(Warnings) = 2

\* The segments of a relative path: what its "/" separate.
Segments(p) ==
  LET cuts == SelectSeq([j \in 1..Len(p) |-> j],
                        LAMBDA j : SubSeq(p, j, j) = "/")
      from(n) == IF n = 1 THEN 1 ELSE cuts[n - 1] + 1
      to(n) == IF n = Len(cuts) + 1 THEN Len(p) ELSE cuts[n] - 1
  IN  [n \in 1..(Len(cuts) + 1) |-> SubSeq(p, from(n), to(n))]

\* path.join's normalisation of segments: empty ones and "." are dropped,
\* ".." takes back the segment before it.
RECURSIVE Resolve(_, _)
Resolve(segs, acc) ==
  IF segs = <<>> THEN acc
  ELSE IF Head(segs) \in {"", "."} THEN Resolve(Tail(segs), acc)
  ELSE IF Head(segs) = ".." /\ acc # <<>> /\ acc[Len(acc)] # ".."
       THEN Resolve(Tail(segs), SubSeq(acc, 1, Len(acc) - 1))
  ELSE Resolve(Tail(segs), Append(acc, Head(segs)))

RECURSIVE JoinSlash(_)
JoinSlash(segs) ==
  IF segs = <<>> THEN "."
  ELSE IF Len(segs) = 1 THEN segs[1]
  ELSE segs[1] \o "/" \o JoinSlash(Tail(segs))

\* The path under the root that path.join(ROOT, rel) names.
Normalize(rel) == JoinSlash(Resolve(Segments(rel), <<>>))

\* What the manifest entries resolve to, in order.
Resolved == [k \in 1..N |-> Normalize(STRUCTURE[k])]

\* The files read so far, in order.
ReadPaths ==
  LET reads == SelectSeq(fsCalls, LAMBDA c : c.op = "readFile")
  IN  [n \in 1..Len(reads) |-> reads[n].path]

\* What the output path resolves to under the root.
OutputRel == Normalize(OUTPUT[2])

\* The headings of the sections accumulated.
Included == [j \in 1..Len(sections) |-> sections[j][5][1]]

\* The manifest as it stands: no two entries resolve to the same path, none
\* resolves to the output path, and each entry is its own resolved form.
ManifestDistinct ==
  /\ Cardinality({Resolved[k] : k \in 1..N}) = N
  /\ Cardinality({STRUCTURE[k] : k \in 1..N}) = N
  /\ \A k \in 1..N : Resolved[k] # OutputRel /\ Resolved[k] = STRUCTURE[k]
  /\ OUTPUT \notin SourcePaths

\* C21: no two entries of STRUCTURE resolve to the same path and none
\* resolves to the output path public/llms.txt; so, as is checked when a
\* read has been started, when a section has been pushed and when the loop
\* is left, no file is read twice in a run, the output file is never read,
\* and no file has two sections.
C21_ManifestDistinct ==
  /\ ManifestDistinct
  /\ pc \in {"reading", "writing"} =>
       /\ Cardinality({ReadPaths[n] : n \in 1..Len(ReadPaths)})
            = Len(ReadPaths)
       /\ \A n \in 1..Len(ReadPaths) : ReadPaths[n] # OUTPUT
  /\ pc \in {"loop", "writing"} =>
       Cardinality({Included[j] : j \in 1..Len(Included)}) = Len(Included)

\* Every file of the manifest has been read and included, over a stale
\* public/llms.txt that the run has replaced.
C21_Witness ==
  /\ pc = "log"
  /\ Len(ReadPaths) = N
  /\ Len(Included) = N
  /\ Included = STRUCTURE
  /\ Written # Str("stale") \o NL

====
